---- MODULE Spec2Model ----
(***************************************************************************)
(* Residual functors of bundle/error/absolute_motion_errors.h.             *)
(*                                                                         *)
(* Numbers.  A double is modelled as a fixed-point integer counting        *)
(* thousandths (One is 1.0); products, quotients and square roots round to *)
(* the nearest thousandth.  A residual slot additionally carries its IEEE  *)
(* class (finite, NaN, +Inf, -Inf) or "unset" for memory not yet written.  *)
(* Angles are radians in the same fixed-point format, so M_PI is 3.142.    *)
(***************************************************************************)
EXTENDS Integers, Sequences, FiniteSets, TLC

VARIABLES
    angles,       \* diff_between_angles called on its own: arguments, result
    f,            \* the functor under evaluation (kind and members)
    p,            \* the parameter blocks the solver hands to the functor
    prior_array,  \* the caller's double[3] a functor may hold a pointer to
    pc,           \* per thread: where its invocation of operator() stands
    r,            \* per thread: the output residual buffer it was given
    ret,          \* per thread: the value operator() returned
    sampled,      \* per thread: the (row, col) last passed to Evaluate
    last          \* the most recent completed evaluation (parameters, residual)

vars == <<angles, f, p, prior_array, pc, r, ret, sampled, last>>

-----------------------------------------------------------------------------
(* Fixed-point arithmetic                                                  *)

One == 1000

M_PI == 3142

HalfPi == M_PI \div 2

Abs(x) == IF x < 0 THEN -x ELSE x

Sign(x) == IF x < 0 THEN -1 ELSE 1

\* n / m rounded to the nearest integer, halves away from zero (m # 0)
RoundDiv(n, m) == Sign(n) * Sign(m) * ((2 * Abs(n) + Abs(m)) \div (2 * Abs(m)))

FMul(x, y) == RoundDiv(x * y, One)

FDiv(x, y) == RoundDiv(x * One, y)

\* the largest s with s * s <= n, for 0 <= n < 2^30: its hundreds h, then
\* the rest
ISqrtFrom(n, h) ==
    CHOOSE s \in (100 * h)..(100 * h + 99) : s * s <= n /\ (s + 1) * (s + 1) > n

ISqrt(n) ==
    ISqrtFrom(n, CHOOSE c \in 0..327 :
                    /\ (100 * c) * (100 * c) <= n
                    /\ (100 * c + 100) * (100 * c + 100) > n)

RoundRoot(n, s) == IF n - s * s > s THEN s + 1 ELSE s

\* sqrt of a non-negative fixed-point number, rounded to nearest
FSqrt(x) == RoundRoot(x * One, ISqrt(x * One))

-----------------------------------------------------------------------------
(* diff_between_angles                                                     *)

diff_between_angles_no_wrap(a, b) == a - b

diff_between_angles_ge(a, b) ==
    LET d == a - b
    IN  IF d >= M_PI THEN d - 2 * M_PI
        ELSE IF d < -M_PI THEN d + 2 * M_PI
        ELSE d

diff_between_angles(a, b) ==
    LET d == a - b
    IN  IF d > M_PI THEN d - 2 * M_PI
        ELSE IF d < -M_PI THEN d + 2 * M_PI
        ELSE d

-----------------------------------------------------------------------------
(* Residual slots: a double with its IEEE class, or memory not yet written *)

Fin(n) == [c |-> "fin", v |-> n]

NaN == [c |-> "nan", v |-> 0]

PInf == [c |-> "pinf", v |-> 0]

NInf == [c |-> "ninf", v |-> 0]

Unset == [c |-> "unset", v |-> 0]

IsFinite(x) == x.c = "fin"

Negate(x) ==
    IF x.c = "fin" THEN Fin(-x.v)
    ELSE IF x.c = "pinf" THEN NInf
    ELSE IF x.c = "ninf" THEN PInf
    ELSE x

\* x * y for a slot x and a finite factor y (inf * 0 and nan * y are nan)
TMul(x, y) ==
    IF x.c = "fin" THEN Fin(FMul(x.v, y))
    ELSE IF x.c = "nan" \/ y = 0 THEN NaN
    ELSE IF y < 0 THEN Negate(x)
    ELSE x

\* x / y for a slot x and a finite divisor y (0 / 0 is nan, x / 0 is +-inf)
TDiv(x, y) ==
    IF x.c = "fin"
    THEN IF y # 0 THEN Fin(FDiv(x.v, y))
         ELSE IF x.v = 0 THEN NaN
         ELSE IF x.v > 0 THEN PInf
         ELSE NInf
    ELSE IF x.c = "nan" THEN NaN
    ELSE IF y < 0 THEN Negate(x)
    ELSE x

FinVec(v) == [i \in 1..Len(v) |-> Fin(v[i])]

UnsetVec == <<Unset, Unset, Unset>>

-----------------------------------------------------------------------------
(* Vectors and the math library                                            *)

Vec3d(x, y, z) == <<x * One, y * One, z * One>>

Dot(u, v) == FMul(u[1], v[1]) + FMul(u[2], v[2]) + FMul(u[3], v[3])

CrossProduct(u, v) ==
    <<FMul(u[2], v[3]) - FMul(u[3], v[2]),
      FMul(u[3], v[1]) - FMul(u[1], v[3]),
      FMul(u[1], v[2]) - FMul(u[2], v[1])>>

Norm(v) == FSqrt(Dot(v, v))

Scaled(v, n) == IF n = 0 THEN v ELSE [i \in 1..3 |-> FDiv(v[i], n)]

normalized(v) == Scaled(v, Norm(v))

\* sin and cos are exact at the multiples of pi/2 (the rotations the model
\* draws) and interpolated linearly in between.
SinKnot(q) == <<0, One, 0, -One>>[(q % 4) + 1]

SinBetween(q, e) ==
    SinKnot(q) + RoundDiv((SinKnot(q + 1) - SinKnot(q)) * e, HalfPi)

Sin(t) == SinBetween(t \div HalfPi, t % HalfPi)

Cos(t) == Sin(t + HalfPi)

\* asin is exact at -1, 0 and 1 and interpolated in between; outside [-1, 1]
\* the library returns NaN, which the model's inputs never produce.
ASin(s) ==
    IF s >= One THEN HalfPi
    ELSE IF s <= -One THEN -HalfPi
    ELSE RoundDiv(s * HalfPi, One)

\* atan2(y, x): exact on the axes and the diagonals, interpolated in between.
\* the angle of (ax, ay) in the first quadrant
AtanFirst(ay, ax) ==
    IF ay = 0 THEN 0
    ELSE IF ay <= ax THEN RoundDiv(HalfPi * ay, 2 * ax)
    ELSE HalfPi - RoundDiv(HalfPi * ax, 2 * ay)

AtanQuadrant(y, x, t) ==
    IF y < 0 THEN (IF x >= 0 THEN -t ELSE t - M_PI)
    ELSE (IF x >= 0 THEN t ELSE M_PI - t)

Atan2(y, x) == AtanQuadrant(y, x, AtanFirst(Abs(y), Abs(x)))

\* natural logarithm, tabulated at the integers 1..12
LogTable == <<0, 693, 1099, 1386, 1609, 1792, 1946, 2079, 2197, 2303, 2398, 2485>>

LogAt(n) == Fin(LogTable[IF n < 1 THEN 1 ELSE IF n > 12 THEN 12 ELSE n])

Log(x) ==
    IF x = 0 THEN NInf
    ELSE IF x < 0 THEN NaN
    ELSE LogAt(RoundDiv(x, One))

\* ceres::AngleAxisRotatePoint: Rodrigues' formula, with w the unit axis
RodriguesSum(w, pt, costheta, sintheta, w_cross_pt, tmp) ==
    [i \in 1..3 |->
        FMul(pt[i], costheta) + FMul(w_cross_pt[i], sintheta) + FMul(w[i], tmp)]

RodriguesUnit(w, pt, costheta, sintheta) ==
    RodriguesSum(w, pt, costheta, sintheta, CrossProduct(w, pt),
                 FMul(Dot(w, pt), One - costheta))

Rodrigues(angle_axis, pt, theta) ==
    IF theta = 0 THEN pt
    ELSE RodriguesUnit([i \in 1..3 |-> FDiv(angle_axis[i], theta)], pt,
                       Cos(theta), Sin(theta))

AngleAxisRotatePoint(angle_axis, pt) ==
    Rodrigues(angle_axis, pt, Norm(angle_axis))

RotatePoint(R, x) == AngleAxisRotatePoint(R, x)

\* rotation R1 followed by R2; the model draws rig cameras whose rotation
\* axis is the instance's, where the composition adds the angles
MultRotations(R1, R2) == [i \in 1..3 |-> R1[i] + R2[i]]

FUNCTOR_NOT_SET == -1

\* a pose block is <<RX, RY, RZ, TX, TY, TZ>>; C index i is TLA+ index i + 1
ShotRotationFunctor(rig_instance_index, rig_camera_index, pp) ==
    LET R_instance == SubSeq(pp[rig_instance_index + 1], 1, 3)
    IN  IF rig_camera_index = FUNCTOR_NOT_SET THEN R_instance
        ELSE MultRotations(R_instance, SubSeq(pp[rig_camera_index + 1], 1, 3))

ShotPositionFunctor(rig_instance_index, rig_camera_index, pp) ==
    SubSeq(pp[rig_instance_index + 1], 4, 6)

-----------------------------------------------------------------------------
(* AbsolutePositionError                                                   *)

PositionConstraintType_X == 1

PositionConstraintType_Y == 2

PositionConstraintType_Z == 4

axises == <<PositionConstraintType_X, PositionConstraintType_Y,
            PositionConstraintType_Z>>

Bit(n, k) == (n \div (2 ^ k)) % 2

\* int(x) & int(y) on the three mask bits
BitAnd(x, y) ==
    Bit(x, 0) * Bit(y, 0) + 2 * Bit(x, 1) * Bit(y, 1) + 4 * Bit(x, 2) * Bit(y, 2)

AbsolutePositionError(pos_prior, std_deviation_horizontal, std_deviation_vertical, has_std_deviation_param, type) ==
    [kind |-> "AbsolutePositionError",
     pos_prior_ |-> pos_prior,
     scale_xy_ |-> FDiv(One, std_deviation_horizontal),
     scale_z_ |-> FDiv(One, std_deviation_vertical),
     has_std_deviation_param_ |-> has_std_deviation_param,
     type_ |-> type]

HasFlag(fn, flag) == BitAnd(fn.type_, flag) = flag

\* PosFunc: the position functor the error is instantiated with
pos_func_(pp) == ShotPositionFunctor(0, FUNCTOR_NOT_SET, pp)

\* residual = pos_prior_ - pos_func_(p)
AbsolutePositionError_residual(fn, pp) ==
    LET pos == pos_func_(pp)
    IN  FinVec([i \in 1..3 |-> fn.pos_prior_[i] - pos[i]])

AbsolutePositionError_scale_swapped(fn, pp, residual) ==
    IF fn.has_std_deviation_param_
    THEN [i \in 1..3 |-> TDiv(residual[i], pp[2][1])]
    ELSE <<TMul(residual[1], fn.scale_z_),
           TMul(residual[2], fn.scale_z_),
           TMul(residual[3], fn.scale_xy_)>>

\* residual /= p[1][0], or the fixed horizontal and vertical scales
AbsolutePositionError_scale(fn, pp, residual) ==
    IF fn.has_std_deviation_param_
    THEN [i \in 1..3 |-> TDiv(residual[i], pp[2][1])]
    ELSE <<TMul(residual[1], fn.scale_xy_),
           TMul(residual[2], fn.scale_xy_),
           TMul(residual[3], fn.scale_z_)>>

AbsolutePositionError_filter_short(fn, residual) ==
    [i \in 1..3 |->
        IF i < 3 /\ ~HasFlag(fn, axises[i]) THEN TMul(residual[i], 0)
        ELSE residual[i]]

\* filter axises to use
AbsolutePositionError_filter(fn, residual) ==
    [i \in 1..3 |->
        IF ~HasFlag(fn, axises[i]) THEN TMul(residual[i], 0) ELSE residual[i]]

-----------------------------------------------------------------------------
(* UpVectorError                                                           *)

UpVectorError(acceleration, std_deviation, is_rig_shot) ==
    [kind |-> "UpVectorError",
     acceleration_ |-> normalized(acceleration),
     is_rig_shot_ |-> is_rig_shot,
     scale_ |-> FDiv(One, std_deviation)]

UpVectorError_call(fn, pp, residuals) ==
    LET instance_index == 0
        camera_index == IF fn.is_rig_shot_ THEN 1 ELSE FUNCTOR_NOT_SET
        R == ShotRotationFunctor(instance_index, camera_index, pp)
        z_world == RotatePoint(R, fn.acceleration_)
        z_axis == Vec3d(0, 0, 1)
    IN  [residuals |->
            FinVec([i \in 1..3 |-> FMul(fn.scale_, z_world[i] - z_axis[i])]),
         ret |-> "true"]

-----------------------------------------------------------------------------
(* PanAngleError, TiltAngleError, RollAngleError                           *)

\* 1 / 1e-8 and 1 / 1e-5: the degeneracy thresholds, as their reciprocals
PanEpsInv == 100000000

RollEpsInv == 100000

\* x < 1 / eps_inv and x <= 1 / eps_inv for a fixed-point x
LessThanEps(x, eps_inv) == x < (One + eps_inv - 1) \div eps_inv

AtMostEps(x, eps_inv) == x <= One \div eps_inv

PanAngleError(angle, std_deviation) ==
    [kind |-> "PanAngleError", angle_ |-> angle,
     scale_ |-> FDiv(One, std_deviation)]

PanAngleError_residual_yx(fn, residuals, z_world) ==
    IF LessThanEps(Abs(z_world[1]), PanEpsInv)
       /\ LessThanEps(Abs(z_world[2]), PanEpsInv)
    THEN [residuals |-> [residuals EXCEPT ![1] = Fin(0)], ret |-> "true"]
    ELSE [residuals |-> [residuals EXCEPT ![1] =
             Fin(FMul(fn.scale_,
                      diff_between_angles(Atan2(z_world[2], z_world[1]),
                                          fn.angle_)))],
          ret |-> "true"]

\* the branch on z_world = RotatePoint(R, z_axis) and the residual written
PanAngleError_residual(fn, residuals, z_world) ==
    IF LessThanEps(Abs(z_world[1]), PanEpsInv)
       /\ LessThanEps(Abs(z_world[2]), PanEpsInv)
    THEN [residuals |-> [residuals EXCEPT ![1] = Fin(0)], ret |-> "true"]
    ELSE [residuals |-> [residuals EXCEPT ![1] =
             Fin(FMul(fn.scale_,
                      diff_between_angles(Atan2(z_world[1], z_world[2]),
                                          fn.angle_)))],
          ret |-> "true"]

PanAngleError_call(fn, shot, residuals) ==
    PanAngleError_residual(fn, residuals,
        RotatePoint(ShotRotationFunctor(0, FUNCTOR_NOT_SET, <<shot>>),
                    Vec3d(0, 0, 1)))

TiltAngleError(angle, std_deviation) ==
    [kind |-> "TiltAngleError", angle_ |-> angle,
     scale_ |-> FDiv(One, std_deviation)]

\* the residual, given Rt_ez, the rotated ez
TiltAngleError_residual(fn, residuals, Rt_ez) ==
    [residuals |-> [residuals EXCEPT ![1] =
        Fin(FMul(fn.scale_,
                 diff_between_angles(
                     -Atan2(Rt_ez[3], FSqrt(FMul(Rt_ez[1], Rt_ez[1])
                                              + FMul(Rt_ez[2], Rt_ez[2]))),
                     fn.angle_)))],
     ret |-> "true"]

TiltAngleError_call(fn, shot, residuals) ==
    TiltAngleError_residual(fn, residuals,
        AngleAxisRotatePoint(ShotRotationFunctor(0, FUNCTOR_NOT_SET, <<shot>>),
                             Vec3d(0, 0, 1)))

RollAngleError(angle, std_deviation) ==
    [kind |-> "RollAngleError", angle_ |-> angle,
     scale_ |-> FDiv(One, std_deviation)]

\* la: the length of the auxiliary axis a = (Rt_ez[1], -Rt_ez[0], 0)
RollAngleError_la(Rt_ez) ==
    FSqrt(FMul(Rt_ez[2], Rt_ez[2]) + FMul(-Rt_ez[1], -Rt_ez[1]))

\* sin_roll = Rt_ez . (Rt_ex x a), with a normalised by la
RollAngleError_sin_roll(Rt_ex, Rt_ez, la) ==
    Dot(Rt_ez, CrossProduct(Rt_ex, <<FDiv(Rt_ez[2], la), FDiv(-Rt_ez[1], la), 0>>))

RollAngleError_roll_no_pole_guard(fn, residuals, sin_roll) ==
    [residuals |-> [residuals EXCEPT ![1] =
        Fin(FMul(fn.scale_, diff_between_angles(ASin(sin_roll), fn.angle_)))],
     ret |-> "true"]

\* the pole test on sin_roll and the residual written
RollAngleError_roll(fn, residuals, sin_roll) ==
    IF AtMostEps(sin_roll + One, RollEpsInv)
    THEN [residuals |-> [residuals EXCEPT ![1] = Fin(0)], ret |-> "true"]
    ELSE [residuals |-> [residuals EXCEPT ![1] =
             Fin(FMul(fn.scale_,
                      diff_between_angles(ASin(sin_roll), fn.angle_)))],
          ret |-> "true"]

RollAngleError_axis_unassigned(fn, residuals, Rt_ex, Rt_ez, la) ==
    IF LessThanEps(la, RollEpsInv)
    THEN [residuals |-> residuals, ret |-> "true"]
    ELSE RollAngleError_roll(fn, residuals,
                             RollAngleError_sin_roll(Rt_ex, Rt_ez, la))

\* the test on la and what follows it
RollAngleError_axis(fn, residuals, Rt_ex, Rt_ez, la) ==
    IF LessThanEps(la, RollEpsInv)
    THEN [residuals |-> [residuals EXCEPT ![1] = Fin(0)], ret |-> "true"]
    ELSE RollAngleError_roll(fn, residuals,
                             RollAngleError_sin_roll(Rt_ex, Rt_ez, la))

RollAngleError_rotated(fn, residuals, Rt_ex, Rt_ez) ==
    RollAngleError_axis(fn, residuals, Rt_ex, Rt_ez, RollAngleError_la(Rt_ez))

RollAngleError_call(fn, shot, residuals) ==
    RollAngleError_rotated(fn, residuals,
        AngleAxisRotatePoint(ShotRotationFunctor(0, FUNCTOR_NOT_SET, <<shot>>),
                             Vec3d(1, 0, 0)),
        AngleAxisRotatePoint(ShotRotationFunctor(0, FUNCTOR_NOT_SET, <<shot>>),
                             Vec3d(0, 0, 1)))

-----------------------------------------------------------------------------
(* PositionPriorError, UnitTranslationPriorError, PointPositionPriorError  *)

\* the double[3] a double* member points to: the caller's array
Deref(ptr) == IF ptr = "prior_array" THEN prior_array ELSE <<0, 0, 0>>

Bias_Parameter_SCALE == 6

PositionPriorError(position_prior, std_deviation) ==
    [kind |-> "PositionPriorError", position_prior_ |-> position_prior,
     scale_ |-> FDiv(One, std_deviation)]

PositionPriorError_call(fn, shot, bias, residuals) ==
    LET R == ShotRotationFunctor(0, FUNCTOR_NOT_SET, <<bias>>)
        t == ShotPositionFunctor(0, FUNCTOR_NOT_SET, <<bias>>)
        scale == bias[Bias_Parameter_SCALE + 1]
        prior == Deref(fn.position_prior_)
        optical_center == ShotPositionFunctor(0, FUNCTOR_NOT_SET, <<shot>>)
        rotated == RotatePoint(R, prior)
    IN  [residuals |->
            FinVec([i \in 1..3 |->
                FMul(fn.scale_,
                     optical_center[i] - (FMul(scale, rotated[i]) + t[i]))]),
         ret |-> "true"]

UnitTranslationPriorError == [kind |-> "UnitTranslationPriorError"]

UnitTranslationPriorError_call(fn, shot, residuals) ==
    LET t == SubSeq(shot, 4, 6)
    IN  [residuals |-> [residuals EXCEPT ![1] =
            Log(FMul(t[1], t[1]) + FMul(t[2], t[2]) + FMul(t[3], t[3]))],
         ret |-> "true"]

PointPositionPriorError(position, std_deviation) ==
    [kind |-> "PointPositionPriorError", position_ |-> position,
     scale_ |-> FDiv(One, std_deviation)]

PointPositionPriorError_call(fn, point, residuals) ==
    LET position == Deref(fn.position_)
    IN  [residuals |->
            FinVec([i \in 1..3 |-> FMul(fn.scale_, point[i] - position[i])]),
         ret |-> "true"]

-----------------------------------------------------------------------------
(* HeatmapdCostFunctor                                                     *)

HeatmapdCostFunctor(x_offset, y_offset, height, width, resolution, std_deviation) ==
    [kind |-> "HeatmapdCostFunctor",
     x_offset_ |-> x_offset, y_offset_ |-> y_offset,
     height_ |-> height, width_ |-> width, resolution_ |-> resolution,
     scale_ |-> FDiv(One, std_deviation)]

\* interpolator_.Evaluate(row, col, residuals): the raster is the ramp
\* data(row, col) = row + 2 col, which bicubic interpolation reproduces
Evaluate(row, col) == Fin(row + 2 * col)

HeatmapdCostFunctor_row_plus(fn, pp) ==
    LET position == ShotPositionFunctor(0, FUNCTOR_NOT_SET, pp)
        y_coor == position[2] - fn.y_offset_
    IN  FDiv(fn.height_, 2 * One) + FDiv(y_coor, fn.resolution_)

HeatmapdCostFunctor_row(fn, pp) ==
    LET position == ShotPositionFunctor(0, FUNCTOR_NOT_SET, pp)
        y_coor == position[2] - fn.y_offset_
    IN  FDiv(fn.height_, 2 * One) - FDiv(y_coor, fn.resolution_)

HeatmapdCostFunctor_col(fn, pp) ==
    LET position == ShotPositionFunctor(0, FUNCTOR_NOT_SET, pp)
        x_coor == position[1] - fn.x_offset_
    IN  FDiv(fn.width_, 2 * One) + FDiv(x_coor, fn.resolution_)

\* the ceres::AutoDiffCostFunction<F, kNumResiduals, ...> arities
NumResiduals(fn) ==
    IF fn.kind \in {"AbsolutePositionError", "UpVectorError",
                    "PositionPriorError", "PointPositionPriorError"}
    THEN 3 ELSE 1

-----------------------------------------------------------------------------
(* The inputs the model draws                                              *)

MaxStd == 2

MaxQuarterTurns == 2

MaxAngle == 5

Threads == {1, 2}

\* standard deviations, fixed or optimised, are strictly positive
StdSet == {k * One : k \in 1..MaxStd}

PriorSet == {Vec3d(0, 0, 10), Vec3d(1, 2, 3)}

PosSet == {Vec3d(1, 0, 10), Vec3d(1, 0, 5), Vec3d(3, -2, 4)}

TransSet == {Vec3d(1, 0, 0), Vec3d(2, 0, 0), Vec3d(0, 0, 0), Vec3d(1, 2, 2)}

AccelSet == {Vec3d(0, 2, 0), Vec3d(3, 4, 0)}

QuarterTurns == {k * HalfPi : k \in (-MaxQuarterTurns)..MaxQuarterTurns}

\* axis-angle rotations about the coordinate axes
RotSet ==
    {<<q, 0, 0>> : q \in QuarterTurns} \cup {<<0, q, 0>> : q \in QuarterTurns}
        \cup {<<0, 0, q>> : q \in QuarterTurns}

TargetSet == {k * HalfPi : k \in -2..2}

Pose(R, t) == R \o t

RotShots == {Pose(R, <<0, 0, 0>>) : R \in RotSet}

PosShots == {Pose(<<0, 0, 0>>, t) : t \in PosSet}

BiasSet ==
    {Pose(R, t) \o <<s>> :
        R \in {<<0, 0, 0>>, <<0, 0, HalfPi>>},
        t \in {Vec3d(0, 0, 0), Vec3d(1, 0, 0)},
        s \in {One, 2 * One}}

FunctorSet ==
    {AbsolutePositionError(prior, sh, sv, has, type) :
        prior \in {Vec3d(0, 0, 10)}, sh \in StdSet, sv \in StdSet, has \in BOOLEAN,
        type \in 0..7}
    \cup {UpVectorError(acc, sd, rig) :
            acc \in AccelSet, sd \in StdSet, rig \in BOOLEAN}
    \cup {PanAngleError(angle, sd) : angle \in TargetSet, sd \in StdSet}
    \cup {TiltAngleError(angle, sd) : angle \in TargetSet, sd \in StdSet}
    \cup {RollAngleError(angle, sd) : angle \in TargetSet, sd \in StdSet}
    \cup {PositionPriorError("prior_array", sd) : sd \in StdSet}
    \cup {UnitTranslationPriorError}
    \cup {PointPositionPriorError("prior_array", sd) : sd \in StdSet}
    \cup {HeatmapdCostFunctor(off[1], off[2], h, 6 * One, res, sd) :
            off \in {<<0, 0>>, <<One, 0>>, <<3 * One, -2 * One>>},
            h \in {4 * One, 5 * One}, res \in {One \div 2, One, 2 * One},
            sd \in StdSet}

HoldsPointer(fn) ==
    fn.kind \in {"PositionPriorError", "PointPositionPriorError"}

\* the parameter blocks the solver may pass to a functor
ParamSet(fn) ==
    CASE fn.kind = "AbsolutePositionError" ->
            IF fn.has_std_deviation_param_
            THEN {<<shot, <<sd>>>> : shot \in PosShots, sd \in StdSet}
            ELSE {<<shot>> : shot \in PosShots}
      [] fn.kind = "UpVectorError" ->
            IF fn.is_rig_shot_
            THEN UNION {{<<shot, cam>> :
                            cam \in {shot, Pose(<<0, 0, 0>>, <<0, 0, 0>>)}} :
                        shot \in RotShots}
            ELSE {<<shot>> : shot \in RotShots}
      [] fn.kind \in {"PanAngleError", "TiltAngleError", "RollAngleError"} ->
            {<<shot>> : shot \in RotShots}
      [] fn.kind = "PositionPriorError" ->
            {<<shot, bias>> : shot \in PosShots, bias \in BiasSet}
      [] fn.kind = "UnitTranslationPriorError" ->
            {<<Pose(<<0, 0, 0>>, t)>> : t \in TransSet}
      [] fn.kind = "PointPositionPriorError" ->
            {<<point>> : point \in PosSet \cup PriorSet}
      [] fn.kind = "HeatmapdCostFunctor" ->
            {<<shot>> : shot \in PosShots}

AngleSet == {k * HalfPi + e : k \in (-MaxAngle)..MaxAngle, e \in {-1, 0, 1}}

-----------------------------------------------------------------------------
(* The solver's use of one functor                                         *)

NotSampled == <<>>

NoLast == [set |-> FALSE, p |-> <<>>, r |-> UnsetVec]

NoCall == [a |-> 0, b |-> 0, d |-> 0, pc |-> "idle"]

Init ==
    /\ angles = NoCall
    /\ f \in FunctorSet
    /\ p \in ParamSet(f)
    /\ prior_array \in (IF HoldsPointer(f) THEN PriorSet ELSE {<<0, 0, 0>>})
    /\ pc = [t \in Threads |-> "idle"]
    /\ r = [t \in Threads |-> UnsetVec]
    /\ ret = [t \in Threads |-> "none"]
    /\ sampled = [t \in Threads |-> NotSampled]
    /\ last = NoLast

AllIdle == \A t \in Threads : pc[t] = "idle"

\* the solver changes the parameter values between evaluations
SolverUpdate ==
    /\ AllIdle
    /\ \E pp \in ParamSet(f) \ {p} : p' = pp
    /\ UNCHANGED <<angles, f, prior_array, pc, r, ret, sampled, last>>

\* the caller writes to the array it passed as the prior
WritePriorArray ==
    /\ AllIdle
    /\ HoldsPointer(f)
    /\ \E v \in PriorSet \ {prior_array} : prior_array' = v
    /\ UNCHANGED <<angles, f, p, pc, r, ret, sampled, last>>

\* the buffer an invocation's residual pointer designates: the caller's
OutputBuffer_static(t) == 1

OutputBuffer(t) == t

\* thread t calls operator() with an output buffer of its own, not yet written
Begin(t) ==
    /\ pc[t] = "idle"
    /\ pc' = [pc EXCEPT ![t] = "eval"]
    /\ r' = [r EXCEPT ![t] = UnsetVec]
    /\ ret' = [ret EXCEPT ![t] = "none"]
    /\ sampled' = [sampled EXCEPT ![t] = NotSampled]
    /\ UNCHANGED <<angles, f, p, prior_array, last>>

Write(t, residuals) == r' = [r EXCEPT ![OutputBuffer(t)] = residuals]

Read(t) == r[OutputBuffer(t)]

Step(t, from, to) == pc[t] = from /\ pc' = [pc EXCEPT ![t] = to]

Return(t, value) == ret' = [ret EXCEPT ![t] = value]

AbsResidual(t) ==
    /\ f.kind = "AbsolutePositionError"
    /\ Step(t, "eval", "scale")
    /\ Write(t, AbsolutePositionError_residual(f, p))
    /\ UNCHANGED <<angles, f, p, prior_array, ret, sampled, last>>

AbsScale(t) ==
    /\ f.kind = "AbsolutePositionError"
    /\ Step(t, "scale", "filter")
    /\ Write(t, AbsolutePositionError_scale(f, p, Read(t)))
    /\ UNCHANGED <<angles, f, p, prior_array, ret, sampled, last>>

AbsFilter(t) ==
    /\ f.kind = "AbsolutePositionError"
    /\ Step(t, "filter", "done")
    /\ Write(t, AbsolutePositionError_filter(f, Read(t)))
    /\ Return(t, "true")
    /\ UNCHANGED <<angles, f, p, prior_array, sampled, last>>

\* a functor that computes its residual and writes it once; out is what
\* operator() leaves in the buffer and what it returns
Evaluation(t, kind, out) ==
    /\ f.kind = kind
    /\ Step(t, "eval", "done")
    /\ Write(t, out.residuals)
    /\ Return(t, out.ret)
    /\ UNCHANGED <<angles, f, p, prior_array, sampled, last>>

UpVector(t) ==
    Evaluation(t, "UpVectorError", UpVectorError_call(f, p, Read(t)))

PanAngle(t) ==
    Evaluation(t, "PanAngleError", PanAngleError_call(f, p[1], Read(t)))

TiltAngle(t) ==
    Evaluation(t, "TiltAngleError", TiltAngleError_call(f, p[1], Read(t)))

RollAngle(t) ==
    Evaluation(t, "RollAngleError", RollAngleError_call(f, p[1], Read(t)))

PositionPrior(t) ==
    Evaluation(t, "PositionPriorError",
               PositionPriorError_call(f, p[1], p[2], Read(t)))

UnitTranslationPrior(t) ==
    Evaluation(t, "UnitTranslationPriorError",
               UnitTranslationPriorError_call(f, p[1], Read(t)))

PointPositionPrior(t) ==
    Evaluation(t, "PointPositionPriorError",
               PointPositionPriorError_call(f, p[1], Read(t)))

HeatmapSample(t) ==
    /\ f.kind = "HeatmapdCostFunctor"
    /\ Step(t, "eval", "scale")
    /\ LET row == HeatmapdCostFunctor_row(f, p)
           col == HeatmapdCostFunctor_col(f, p)
       IN  /\ sampled' = [sampled EXCEPT ![t] = <<row, col>>]
           /\ Write(t, [Read(t) EXCEPT ![1] = Evaluate(row, col)])
    /\ UNCHANGED <<angles, f, p, prior_array, ret, last>>

HeatmapScale(t) ==
    /\ f.kind = "HeatmapdCostFunctor"
    /\ Step(t, "scale", "done")
    /\ Write(t, [Read(t) EXCEPT ![1] = TMul(Read(t)[1], f.scale_)])
    /\ Return(t, "true")
    /\ UNCHANGED <<angles, f, p, prior_array, sampled, last>>

\* the solver takes the residual of a finished evaluation
Collect(t) ==
    /\ pc[t] = "done"
    /\ pc' = [pc EXCEPT ![t] = "idle"]
    /\ last' = [set |-> TRUE, p |-> p, r |-> r[t]]
    /\ r' = [r EXCEPT ![t] = UnsetVec]
    /\ ret' = [ret EXCEPT ![t] = "none"]
    /\ sampled' = [sampled EXCEPT ![t] = NotSampled]
    /\ UNCHANGED <<angles, f, p, prior_array>>

Next ==
    \/ SolverUpdate
    \/ WritePriorArray
    \/ \E t \in Threads : Begin(t)
    \/ \E t \in Threads : AbsResidual(t)
    \/ \E t \in Threads : AbsScale(t)
    \/ \E t \in Threads : AbsFilter(t)
    \/ \E t \in Threads : UpVector(t)
    \/ \E t \in Threads : PanAngle(t)
    \/ \E t \in Threads : TiltAngle(t)
    \/ \E t \in Threads : RollAngle(t)
    \/ \E t \in Threads : PositionPrior(t)
    \/ \E t \in Threads : UnitTranslationPrior(t)
    \/ \E t \in Threads : PointPositionPrior(t)
    \/ \E t \in Threads : HeatmapSample(t)
    \/ \E t \in Threads : HeatmapScale(t)
    \/ \E t \in Threads : Collect(t)

Spec == Init /\ [][Next]_vars

-----------------------------------------------------------------------------
(* diff_between_angles on its own                                          *)

InitAngles ==
    /\ angles \in {[a |-> a, b |-> b, d |-> 0, pc |-> "call"] :
                     a \in AngleSet, b \in AngleSet}
    /\ f = UnitTranslationPriorError
    /\ p = <<Pose(<<0, 0, 0>>, Vec3d(1, 0, 0))>>
    /\ prior_array = <<0, 0, 0>>
    /\ pc = [t \in Threads |-> "idle"]
    /\ r = [t \in Threads |-> UnsetVec]
    /\ ret = [t \in Threads |-> "none"]
    /\ sampled = [t \in Threads |-> NotSampled]
    /\ last = NoLast

DiffBetweenAngles ==
    /\ angles.pc = "call"
    /\ angles' = [angles EXCEPT !.d = diff_between_angles(angles.a, angles.b),
                                !.pc = "returned"]
    /\ UNCHANGED <<f, p, prior_array, pc, r, ret, sampled, last>>

NextAngles == DiffBetweenAngles

SpecAngles == InitAngles /\ [][NextAngles]_vars

-----------------------------------------------------------------------------
(* Properties                                                              *)

Done(t) == pc[t] = "done"

Finished(t, kind) == Done(t) /\ f.kind = kind

\* the residual buffer an invocation leaves when it runs alone
Alone(fn, pp) ==
    CASE fn.kind = "AbsolutePositionError" ->
            AbsolutePositionError_filter(fn,
                AbsolutePositionError_scale(fn, pp,
                    AbsolutePositionError_residual(fn, pp)))
      [] fn.kind = "UpVectorError" ->
            UpVectorError_call(fn, pp, UnsetVec).residuals
      [] fn.kind = "PanAngleError" ->
            PanAngleError_call(fn, pp[1], UnsetVec).residuals
      [] fn.kind = "TiltAngleError" ->
            TiltAngleError_call(fn, pp[1], UnsetVec).residuals
      [] fn.kind = "RollAngleError" ->
            RollAngleError_call(fn, pp[1], UnsetVec).residuals
      [] fn.kind = "PositionPriorError" ->
            PositionPriorError_call(fn, pp[1], pp[2], UnsetVec).residuals
      [] fn.kind = "UnitTranslationPriorError" ->
            UnitTranslationPriorError_call(fn, pp[1], UnsetVec).residuals
      [] fn.kind = "PointPositionPriorError" ->
            PointPositionPriorError_call(fn, pp[1], UnsetVec).residuals
      [] fn.kind = "HeatmapdCostFunctor" ->
            [UnsetVec EXCEPT ![1] =
                TMul(Evaluate(HeatmapdCostFunctor_row(fn, pp),
                              HeatmapdCostFunctor_col(fn, pp)), fn.scale_)]

\* the shot's rotation, its rotated axes, and the roll functor's la and
\* sin_roll for the current parameters
ShotR == SubSeq(p[1], 1, 3)

ShotPos == SubSeq(p[1], 4, 6)

RotatedEx == AngleAxisRotatePoint(ShotR, Vec3d(1, 0, 0))

RotatedEz == AngleAxisRotatePoint(ShotR, Vec3d(0, 0, 1))

La == RollAngleError_la(RotatedEz)

SinRoll == RollAngleError_sin_roll(RotatedEx, RotatedEz, La)

AxisDegenerate == LessThanEps(La, RollEpsInv)

AtPole == AtMostEps(SinRoll + One, RollEpsInv)

PanDegenerate ==
    /\ LessThanEps(Abs(RotatedEz[1]), PanEpsInv)
    /\ LessThanEps(Abs(RotatedEz[2]), PanEpsInv)

C2_SingleRemap ==
    angles.pc = "returned" =>
        /\ (angles.a - angles.b > M_PI =>
                angles.d = angles.a - angles.b - 2 * M_PI)
        /\ (angles.a - angles.b < -M_PI =>
                angles.d = angles.a - angles.b + 2 * M_PI)
        /\ (angles.a - angles.b >= -M_PI /\ angles.a - angles.b <= M_PI =>
                angles.d = angles.a - angles.b)
        /\ (angles.a = angles.b => angles.d = 0)
        /\ \A eps \in 1..(M_PI - 1) :
                angles.a = angles.b + 2 * M_PI - eps => angles.d = -eps

C2_Witness ==
    /\ angles.pc = "returned"
    /\ \E eps \in 1..(M_PI - 1) :
            angles.a = angles.b + 2 * M_PI - eps /\ angles.d = -eps

\* C3 (as stated): every component of AbsolutePositionError's residual whose
\* axis bit is not set in the mask is exactly 0 for every input, and with
\* mask = Y only the Y component is scale_xy * (prior_y - predicted_y).
C3_Original ==
    \A t \in Threads :
        Finished(t, "AbsolutePositionError") =>
            /\ \A i \in 1..3 : ~HasFlag(f, axises[i]) => r[t][i] = Fin(0)
            /\ f.type_ = PositionConstraintType_Y =>
                    r[t][2] = Fin(FMul(f.scale_xy_, f.pos_prior_[2] - ShotPos[2]))

\* C3 (amended): for finite inputs and positive standard deviations every
\* component whose axis bit is not set is exactly 0; with mask = Y only the
\* Y component is scale_xy * (prior_y - predicted_y) when the
\* standard-deviation parameter is not active and
\* (prior_y - predicted_y) / p[1][0] when it is.
C3_Amended ==
    \A t \in Threads :
        Finished(t, "AbsolutePositionError") =>
            /\ \A i \in 1..3 :
                  ~HasFlag(f, axises[i]) => r[t][i] = Fin(0)
            /\ f.type_ = PositionConstraintType_Y =>
                  r[t][2] = IF f.has_std_deviation_param_
                            THEN TDiv(Fin(f.pos_prior_[2] - ShotPos[2]), p[2][1])
                            ELSE Fin(FMul(f.scale_xy_,
                                          f.pos_prior_[2] - ShotPos[2]))

C3_Witness ==
    \E t \in Threads :
        /\ Finished(t, "AbsolutePositionError")
        /\ f.type_ = PositionConstraintType_Y
        /\ f.has_std_deviation_param_
        /\ p[2][1] = 2 * One
        /\ f.pos_prior_[1] # ShotPos[1]
        /\ f.pos_prior_[2] # ShotPos[2]
        /\ f.pos_prior_[3] # ShotPos[3]
        /\ r[t][1] = Fin(0)
        /\ r[t][3] = Fin(0)
        /\ r[t][2] # Fin(FMul(f.scale_xy_, f.pos_prior_[2] - ShotPos[2]))

\* C4: the residual of AbsolutePositionError uses one uncertainty mode, fixed
\* at construction: with the standard-deviation parameter active every
\* enabled component is (prior - predicted) / p[1][0] and the fixed scales
\* are not applied; otherwise X and Y are scaled by 1 / std_horizontal and Z
\* by 1 / std_vertical.  Prior (0,0,10), std_horizontal 1, std_vertical 2,
\* predicted (1,0,10), all axes: the residual is (-1, 0, 0).
C4_UncertaintyMode ==
    \A t \in Threads :
        Finished(t, "AbsolutePositionError") =>
            /\ \A i \in 1..3 :
                  HasFlag(f, axises[i]) =>
                      r[t][i] =
                        IF f.has_std_deviation_param_
                        THEN TDiv(Fin(f.pos_prior_[i] - ShotPos[i]), p[2][1])
                        ELSE Fin(FMul(f.pos_prior_[i] - ShotPos[i],
                                      IF i = 3 THEN f.scale_z_
                                      ELSE f.scale_xy_))
            /\ (/\ f = AbsolutePositionError(Vec3d(0, 0, 10), One, 2 * One,
                                             FALSE, 7)
                /\ ShotPos = Vec3d(1, 0, 10))
                  => r[t] = FinVec(Vec3d(-1, 0, 0))

C4_Witness ==
    \E t \in Threads :
        /\ Finished(t, "AbsolutePositionError")
        /\ f = AbsolutePositionError(Vec3d(0, 0, 10), One, 2 * One, FALSE, 7)
        /\ ShotPos = Vec3d(1, 0, 10)
        /\ r[t] = FinVec(Vec3d(-1, 0, 0))

\* C5: RollAngleError's residual is exactly 0 whenever the auxiliary axis is
\* shorter than 1e-5 and whenever sin_roll <= -(1 - 1e-5), whatever the
\* target and the standard deviation; otherwise it is
\* scale * diff_between_angles(asin(sin_roll), target).
C5_RollDegenerate ==
    \A t \in Threads :
        Finished(t, "RollAngleError") =>
            r[t][1] = IF AxisDegenerate \/ AtPole THEN Fin(0)
                      ELSE Fin(FMul(f.scale_,
                                    diff_between_angles(ASin(SinRoll), f.angle_)))

C5_Witness ==
    \E t \in Threads :
        /\ Finished(t, "RollAngleError")
        /\ ~AxisDegenerate
        /\ AtPole
        /\ f.angle_ = HalfPi
        /\ r[t][1] = Fin(0)

\* C6: PanAngleError's residual is exactly 0 when the x and y components of
\* the rotated (0,0,1) axis are both below 1e-8 in magnitude; otherwise it
\* is scale * diff_between_angles(atan2(x, y), target).
C6_PanDegenerate ==
    \A t \in Threads :
        Finished(t, "PanAngleError") =>
            r[t][1] = IF PanDegenerate THEN Fin(0)
                      ELSE Fin(FMul(f.scale_,
                                    diff_between_angles(
                                        Atan2(RotatedEz[1], RotatedEz[2]),
                                        f.angle_)))

C6_Witness ==
    \E t \in Threads :
        /\ Finished(t, "PanAngleError")
        /\ RotatedEz[1] = One
        /\ RotatedEz[2] = 0
        /\ f.angle_ = 0
        /\ r[t][1] = Fin(FMul(f.scale_, HalfPi))

\* C7: HeatmapdCostFunctor samples the interpolator at
\* row = height/2 - (y - y_offset)/resolution and
\* col = width/2 + (x - x_offset)/resolution; at the raster origin offset
\* that is (height/2, width/2), and the shot's z plays no part.
C7_HeatmapSample ==
    \A t \in Threads :
        (f.kind = "HeatmapdCostFunctor" /\ sampled[t] # NotSampled) =>
            /\ sampled[t] =
                 <<FDiv(f.height_, 2 * One)
                     - FDiv(ShotPos[2] - f.y_offset_, f.resolution_),
                   FDiv(f.width_, 2 * One)
                     + FDiv(ShotPos[1] - f.x_offset_, f.resolution_)>>
            /\ (ShotPos[1] = f.x_offset_ /\ ShotPos[2] = f.y_offset_) =>
                 sampled[t] = <<FDiv(f.height_, 2 * One), FDiv(f.width_, 2 * One)>>

C7_Witness ==
    \E t \in Threads :
        /\ f.kind = "HeatmapdCostFunctor"
        /\ ShotPos[1] = f.x_offset_
        /\ ShotPos[2] = f.y_offset_
        /\ ShotPos[3] # 0
        /\ f.y_offset_ # 0
        /\ sampled[t] = <<FDiv(f.height_, 2 * One), FDiv(f.width_, 2 * One)>>

\* C8: an invocation of a functor leaves the functor's members, the
\* parameter blocks and the prior array unchanged, and, whatever the other
\* thread's invocation is doing to its own output buffer, a finished
\* invocation has left in its buffer the residual it leaves when run alone.
C8_Reentrant ==
    /\ [](\A t \in Threads : Done(t) => r[t] = Alone(f, p))
    /\ [][(\E t \in Threads : pc'[t] # pc[t]) =>
            (f' = f /\ p' = p /\ prior_array' = prior_array)]_vars

C8_Witness ==
    /\ f.kind = "AbsolutePositionError"
    /\ f.type_ = PositionConstraintType_Y
    /\ pc[1] = "done"
    /\ pc[2] = "filter"
    /\ r[1] = Alone(f, p)
    /\ r[2] # r[1]

\* C9 (as stated): two invocations of a functor with equal parameter values
\* return equal residuals, whatever the caller did between them.
C9_Original ==
    \A t \in Threads :
        (Done(t) /\ last.set /\ last.p = p) => r[t] = last.r

\* C10: every evaluation returns true, never false, and by the time it
\* returns it has assigned every component of its output residual.
C10_AlwaysSucceeds ==
    \A t \in Threads :
        /\ ret[t] \in {"none", "true"}
        /\ Done(t) =>
              /\ ret[t] = "true"
              /\ \A i \in 1..NumResiduals(f) : r[t][i] # Unset

C10_Witness ==
    \E t \in Threads :
        /\ Finished(t, "RollAngleError")
        /\ AxisDegenerate
        /\ ret[t] = "true"
        /\ r[t][1] = Fin(0)

====
